---- MODULE Spec2Model ----
(***************************************************************************)
(* originpro in external mode (oext = True): the connection object po      *)
(* (config.APP), the wrapper bookkeeping of base.BaseObject and the exit   *)
(* handler, and the NLFit session of analysis.py.                          *)
(*                                                                         *)
(* The host (Origin) is opaque.  What the model keeps of it is the number  *)
(* of automation connections it has open, whether the readiness wait       *)
(* 'sec -poc' was run on the current connection, and the system variable   *)
(* @NLFS.  Every operation records the calls it made on the host in sent.  *)
(***************************************************************************)
EXTENDS Integers, Sequences, FiniteSets

\* ---------------------------------------------------------------- bounds
\* wrapper objects constructed in one process lifetime
MaxObjs == 3
\* ceiling of the counters a correct run keeps at 0 or 1 (connections open,
\* nlend commands per data set)
MaxCount == 3
\* largest value of the host variable @NLFS
MaxNLFS == 1
\* largest number of dependent / independent variables of a fitting function
MaxVars == 2
\* largest matrix object index (or long-name id) given to set_mdata
MaxIdx == 1
\* largest number of children of the root of a user tree, and of a child
MaxKids == 2
MaxGrand == 1
\* largest parameter value and bound value
MaxVal == 2
\* numbers the host answers are multiples of 1/10 from -MaxTenths/10 to MaxTenths/10
MaxTenths == 15

VARIABLES
    po,          \* config.po: [app, first]   (APP._app, APP._first)
    host,        \* the host: [conns, poc, NLFS]
    EXIT,        \* config._EXIT[0]
    OBJS_COUNT,  \* config._OBJS_COUNT[0]
    objs,        \* BaseObject instances: id -> "unborn" | "live" | "rejected" | "dead"
    nlfit,       \* the NLFit instance: [state, ended, odr, implicit, numDeps, numIndeps]
    sent,        \* host calls made by the last operation, in order
    lastOp,      \* the last operation and how it ended: [op, out]
    hist,        \* history: [detachCalls, detachDone, lastDetach, nlends, hasData, reused,
                 \*           built, tree]
    io,          \* the last operation's arguments and what it returned: [args, ret]
    linfit,      \* the LinearFit instance and its GUI tree in the host
    store        \* the 'tree' string property the host keeps for one wrapped object

vars == <<po, host, EXIT, OBJS_COUNT, objs, nlfit, sent, lastOp, hist, io, linfit, store>>

ObjIds == 1..MaxObjs

\* ------------------------------------------------------------ the host
\* One call on the host: which method, its argument, the value written (or
\* -1), how it was made ("po": forwarded through po.__getattr__; "app": made
\* by APP itself on self._app or OriginExt), and the connection it ran on.
Entry(call, arg, val, via, app, poc) ==
    [call |-> call, arg |-> arg, val |-> val, via |-> via, conn |-> app, poc |-> poc]

\* The world an operation works on: the connection object, the host, the log.
World == [po |-> po, host |-> host, sent |-> <<>>]

Log(w, call, arg, val, via) ==
    [w EXCEPT !.sent = Append(@, Entry(call, arg, val, via, w.po.app, w.host.poc))]

\* ------------------------------------------------------------ config.APP
\* APP.__bool__
APP_bool(w) == w.po.app # "None"

\* (mutant) __getattr__ that makes the connection and does not wait for it
APP_getattr_NoWait(w) ==
    IF w.po.app = "None"
    THEN LET w1 == Log(w, "Application", "", -1, "app")
         IN  [w1 EXCEPT !.po.app = "Application",
                        !.host.conns = @ + 1,
                        !.host.poc = FALSE]
    ELSE w

\* APP.__getattr__(name) for a name that is not an attribute of the OriginExt
\* module: the connection is made on demand, then 'sec -poc' waits for it.
APP_getattr(w) ==
    IF w.po.app = "None"
    THEN LET w1 == Log(w, "Application", "", -1, "app")
             w2 == [w1 EXCEPT !.po.app = "Application",
                              !.host.conns = @ + 1,
                              !.host.poc = FALSE]
             w3 == Log(w2, "LT_execute", "sec -poc", -1, "app")
         IN  [w3 EXCEPT !.host.poc = TRUE]
    ELSE w

\* APP.Exit(releaseonly)
APP_Exit(w, releaseonly) ==
    IF w.po.app # "None"
    THEN LET w1 == Log(w, "Exit", IF releaseonly THEN "True" ELSE "False", -1, "app")
         IN  [w1 EXCEPT !.po.app = "None",
                        !.host.conns = @ - 1,
                        !.host.poc = FALSE]
    ELSE w

\* (mutant) Attach() that drops the old connection without Exit
APP_Attach_NoExit(w) ==
    LET w1 == [w EXCEPT !.po.first = FALSE]
        w3 == Log(w1, "ApplicationSI", "", -1, "app")
    IN  [w3 EXCEPT !.po.app = "ApplicationSI",
                   !.host.conns = @ + 1,
                   !.host.poc = FALSE]

\* APP.Attach()
APP_Attach(w) ==
    LET releaseonly == ~w.po.first
        w1 == [w EXCEPT !.po.first = FALSE]
        w2 == APP_Exit(w1, releaseonly)
        w3 == Log(w2, "ApplicationSI", "", -1, "app")
    IN  [w3 EXCEPT !.po.app = "ApplicationSI",
                   !.host.conns = @ + 1,
                   !.host.poc = FALSE]

\* APP.Detach()
APP_Detach(w) == APP_Exit(w, TRUE)

\* po.<call>(arg, val): a call forwarded to the host through po.
HostCall(w, call, arg, val) ==
    LET w1 == APP_getattr(w)
        w2 == Log(w1, call, arg, val, "po")
    IN  IF call = "LT_set_var" /\ arg = "@NLFS"
        THEN [w2 EXCEPT !.host.NLFS = val]
        ELSE w2

\* ------------------------------------------------- lifecycle bookkeeping
Existing == {i \in ObjIds : objs[i] \in {"live", "rejected"}}

\* A po.Detach() made by the bookkeeping (BaseObject.__del__, _exit_handler):
\* the history keeps the state it was made in.
NoteDetach(h, by, w, exit, count, others) ==
    [h EXCEPT !.detachCalls = @ + 1,
              !.detachDone = IF APP_bool(w) THEN @ + 1 ELSE @,
              !.lastDetach = [by |-> by, exit |-> exit, count |-> count,
                              existing |-> others, released |-> APP_bool(w)]]

\* Python values that cross the model's boundary:
\* [t |-> type, v |-> number, s |-> text].
PyNone == [t |-> "None", v |-> 0, s |-> ""]
PyBool(b) == [t |-> "bool", v |-> IF b THEN 1 ELSE 0, s |-> ""]
PyInt(n) == [t |-> "int", v |-> n, s |-> ""]
PyStr(x) == [t |-> "str", v |-> 0, s |-> x]

\* How an operation ends: the connection and host it leaves, the calls it
\* made, its outcome ("ok" or the exception raised), its arguments and the
\* value it returned (ret is PyNone when it returns nothing or raises).
Return(w, op, out, args, ret) ==
    /\ po' = w.po
    /\ host' = w.host
    /\ sent' = w.sent
    /\ lastOp' = [op |-> op, out |-> out]
    /\ io' = [args |-> args, ret |-> ret]

\* An operation of the bookkeeping, of po or of NLFit whose arguments and
\* return value no property reads; it leaves LinearFit and the object's
\* stored tree alone.
Commit(w, op, out) ==
    /\ Return(w, op, out, <<>>, PyNone)
    /\ UNCHANGED <<linfit, store>>

\* (mutant) __init__ that looks at obj first and counts after
BaseObject_init_CheckFirst(i, obj) ==
    /\ objs[i] = "unborn"
    /\ \A j \in ObjIds : j < i => objs[j] # "unborn"
    /\ OBJS_COUNT' = IF obj = "None" THEN OBJS_COUNT ELSE OBJS_COUNT + 1
    /\ objs' = [objs EXCEPT ![i] = IF obj = "None" THEN "rejected" ELSE "live"]
    /\ Commit(World, "BaseObject", IF obj = "None" THEN "TypeError" ELSE "ok")
    /\ UNCHANGED <<EXIT, nlfit, hist>>

\* BaseObject.__init__(obj): the count goes up before obj is looked at; with
\* obj None the constructor raises TypeError and leaves an instance without
\* self.obj, which lives until the exception that holds it is dropped.
BaseObject_init(i, obj) ==
    /\ objs[i] = "unborn"
    /\ \A j \in ObjIds : j < i => objs[j] # "unborn"
    /\ OBJS_COUNT' = OBJS_COUNT + 1
    /\ objs' = [objs EXCEPT ![i] = IF obj = "None" THEN "rejected" ELSE "live"]
    /\ Commit(World, "BaseObject", IF obj = "None" THEN "TypeError" ELSE "ok")
    /\ UNCHANGED <<EXIT, nlfit, hist>>

\* (mutant) __del__ that detaches at count zero without looking at _EXIT
BaseObject_del_NoExitCheck(i) ==
    /\ objs[i] \in {"live", "rejected"}
    /\ LET count  == OBJS_COUNT - 1
           detach == count = 0
           w      == IF detach THEN APP_Detach(World) ELSE World
       IN  /\ OBJS_COUNT' = count
           /\ objs' = [objs EXCEPT ![i] = "dead"]
           /\ hist' = IF detach
                      THEN NoteDetach(hist, "del", World, EXIT, count,
                                      Cardinality(Existing \ {i}))
                      ELSE hist
           /\ Commit(w, "del", "ok")
    /\ UNCHANGED <<EXIT, nlfit>>

\* BaseObject.__del__: runs for every instance, also for a rejected one.
BaseObject_del(i) ==
    /\ objs[i] \in {"live", "rejected"}
    /\ LET count  == OBJS_COUNT - 1
           detach == EXIT /\ count = 0
           w      == IF detach THEN APP_Detach(World) ELSE World
       IN  /\ OBJS_COUNT' = count
           /\ objs' = [objs EXCEPT ![i] = "dead"]
           /\ hist' = IF detach
                      THEN NoteDetach(hist, "del", World, EXIT, count,
                                      Cardinality(Existing \ {i}))
                      ELSE hist
           /\ Commit(w, "del", "ok")
    /\ UNCHANGED <<EXIT, nlfit>>

\* (mutant) exit handler that sets the flag and leaves the detach to __del__
exit_handler_FlagOnly ==
    /\ ~EXIT
    /\ EXIT' = TRUE
    /\ Commit(World, "exit_handler", "ok")
    /\ UNCHANGED <<OBJS_COUNT, objs, nlfit, hist>>

\* config._exit_handler, registered with atexit: runs once.
exit_handler ==
    /\ ~EXIT
    /\ EXIT' = TRUE
    /\ LET detach == OBJS_COUNT = 0
           w      == IF detach THEN APP_Detach(World) ELSE World
       IN  /\ hist' = IF detach
                      THEN NoteDetach(hist, "exit", World, TRUE, OBJS_COUNT,
                                      Cardinality(Existing))
                      ELSE hist
           /\ Commit(w, "exit_handler", "ok")
    /\ UNCHANGED <<OBJS_COUNT, objs, nlfit>>

\* ------------------------------------------------- the caller's use of po
\* any call that needs the host, e.g. po.LT_execute(...)
Forward ==
    /\ Commit(HostCall(World, "LT_execute", "script", -1), "forward", "ok")
    /\ UNCHANGED <<EXIT, OBJS_COUNT, objs, nlfit, hist>>

\* po.LT_set_var('@NLFS', v)
SetNLFS(v) ==
    /\ Commit(HostCall(World, "LT_set_var", "@NLFS", v), "set_var", "ok")
    /\ UNCHANGED <<EXIT, OBJS_COUNT, objs, nlfit, hist>>

UserAttach ==
    /\ host.conns < MaxCount
    /\ Commit(APP_Attach(World), "Attach", "ok")
    /\ UNCHANGED <<EXIT, OBJS_COUNT, objs, nlfit, hist>>

UserDetach ==
    /\ Commit(APP_Detach(World), "Detach", "ok")
    /\ UNCHANGED <<EXIT, OBJS_COUNT, objs, nlfit, hist>>

UserExit(releaseonly) ==
    /\ Commit(APP_Exit(World, releaseonly), "Exit", "ok")
    /\ UNCHANGED <<EXIT, OBJS_COUNT, objs, nlfit, hist>>

\* ------------------------------------------- config: numeric type codes
\* A dict is the sequence of its items in insertion order.
RECURSIVE DictFind(_, _, _)
DictFind(d, k, i) ==
    IF i > Len(d) THEN 0
    ELSE IF d[i].k = k THEN i
    ELSE DictFind(d, k, i + 1)

DictHas(d, k) == DictFind(d, k, 1) # 0

\* d[k]
DictGet(d, k) == d[DictFind(d, k, 1)].v

\* d[k] = v: a key already there keeps its place and takes the new value
DictSet(d, k, v) ==
    IF DictHas(d, k)
    THEN [d EXCEPT ![DictFind(d, k, 1)].v = v]
    ELSE Append(d, [k |-> k, v |-> v])

\* {v: k for k, v in d.items()}
RECURSIVE DictInvertFrom(_, _, _)
DictInvertFrom(d, i, acc) ==
    IF i > Len(d) THEN acc
    ELSE DictInvertFrom(d, i + 1, DictSet(acc, d[i].v, d[i].k))

DictInvert(d) == DictInvertFrom(d, 1, <<>>)

\* config.npdtype_to_orgdtype: the literal, then [np.int64] = po.DF_LONG.
\* The DF_ codes are distinct constants of the OriginExt module.
npdtype_to_orgdtype ==
    DictSet(<< [k |-> "float64", v |-> "DF_DOUBLE"],
               [k |-> "float32", v |-> "DF_FLOAT"],
               [k |-> "int16", v |-> "DF_SHORT"],
               [k |-> "int32", v |-> "DF_LONG"],
               [k |-> "int8", v |-> "DF_CHAR"],
               [k |-> "uint8", v |-> "DF_BYTE"],
               [k |-> "uint16", v |-> "DF_USHORT"],
               [k |-> "uint32", v |-> "DF_ULONG"],
               [k |-> "complex128", v |-> "DF_COMPLEX"] >>,
            "int64", "DF_LONG")

\* config.orgdtype_to_npdtype
orgdtype_to_npdtype == DictInvert(npdtype_to_orgdtype)

NpTypes == {npdtype_to_orgdtype[i].k : i \in 1..Len(npdtype_to_orgdtype)}
OrgCodes == {npdtype_to_orgdtype[i].v : i \in 1..Len(npdtype_to_orgdtype)}

\* ------------------------------------------ operations on a wrapped object
\* The methods below are called on a wrapper that was constructed.
HasWrapper == \E i \in ObjIds : objs[i] = "live"

\* An operation on a wrapped object goes to self.obj, not through po.
ObjReturn(op, out, args, ret) ==
    /\ HasWrapper
    /\ Return(World, op, out, args, ret)
    /\ UNCHANGED <<EXIT, OBJS_COUNT, objs, nlfit, hist, linfit>>

\* An array of element type t is sent with the code npdtype_to_orgdtype[t]
\* and read back with the element type orgdtype_to_npdtype[code].
DtypeRoundTrip(t) ==
    /\ ObjReturn("roundtrip", "ok", <<PyStr(t)>>,
                 PyStr(DictGet(orgdtype_to_npdtype, DictGet(npdtype_to_orgdtype, t))))
    /\ UNCHANGED store

\* IPage.to_np(): the host answers the data with the storage code ndf
IPage_to_np(ndf) ==
    /\ ObjReturn("to_np", "ok", <<PyStr(ndf)>>, PyStr(DictGet(orgdtype_to_npdtype, ndf)))
    /\ UNCHANGED store

\* IPage.to_np2d(frame)
IPage_to_np2d(ndf) ==
    /\ ObjReturn("to_np2d", "ok", <<PyStr(ndf)>>, PyStr(DictGet(orgdtype_to_npdtype, ndf)))
    /\ UNCHANGED store

\* What the host answers to GetNumProp / DoMethod is a double: a finite
\* number (in tenths), nan (a missing value), inf or -inf.
PyFloat(tenths) == [t |-> "float", v |-> tenths, s |-> ""]
HostNumbers ==
    {PyFloat(n) : n \in -MaxTenths..MaxTenths}
        \cup {[t |-> "float", v |-> 0, s |-> x] : x \in {"nan", "inf", "-inf"}}

\* Python int(x): truncation toward zero for a finite float; ValueError for
\* nan and for text that is no number; OverflowError for an infinity;
\* TypeError for None.
int(x) ==
    IF x.t = "float" /\ x.s = ""
    THEN [out |-> "ok",
          ret |-> PyInt(IF x.v >= 0 THEN x.v \div 10 ELSE -((-x.v) \div 10))]
    ELSE IF x.t = "float" /\ x.s = "nan" THEN [out |-> "ValueError", ret |-> PyNone]
    ELSE IF x.t = "float" THEN [out |-> "OverflowError", ret |-> PyNone]
    ELSE IF x.t = "str" THEN [out |-> "ValueError", ret |-> PyNone]
    ELSE [out |-> "TypeError", ret |-> PyNone]

\* try: return int(x)  except ValueError: return 0
IntOrZero(x) ==
    IF int(x).out = "ValueError" THEN [out |-> "ok", ret |-> PyInt(0)] ELSE int(x)

\* BaseObject.get_int(prop); x is what self.obj.GetNumProp(prop) answers
BaseObject_get_int(x) ==
    /\ ObjReturn("get_int", IntOrZero(x).out, <<x>>, IntOrZero(x).ret)
    /\ UNCHANGED store

\* BaseObject.method_int(name, arg); x is what self.obj.DoMethod answers
BaseObject_method_int(x) ==
    /\ ObjReturn("method_int", IntOrZero(x).out, <<x>>, IntOrZero(x).ret)
    /\ UNCHANGED store

\* (mutant) from_np2d that raises on failure like from_np
IPage_from_np2d_Raises(ok) ==
    /\ ObjReturn("from_np2d", IF ok THEN "ok" ELSE "ValueError", <<PyBool(ok)>>, PyNone)
    /\ UNCHANGED store

\* IPage.from_np(arr, dstack); ok is what self.obj.SetData answers
IPage_from_np(ok, dstack) ==
    /\ ObjReturn("from_np", IF ok THEN "ok" ELSE "ValueError",
                 <<PyBool(ok), PyBool(dstack)>>, PyNone)
    /\ UNCHANGED store

\* IPage.from_np2d(arr, frame)
IPage_from_np2d(ok) ==
    /\ ObjReturn("from_np2d", "ok", <<PyBool(ok)>>, PyBool(ok))
    /\ UNCHANGED store

\* --------------------------------------------------- the user tree
\* An ElementTree element: [tag, text, kids]; text "" is no text.
Node(tag, text, kids) == [tag |-> tag, text |-> text, kids |-> kids]

\* no tree (none built, none assigned)
NoTree == Node("", "", <<>>)

SeqsUpTo(S, n) == UNION {[1..k -> S] : k \in 0..n}

Tags == {"a", "b"}
Texts == {"", "x"}
Leaves == {Node(t, x, <<>>) : t \in Tags, x \in Texts}
Branches == {Node("b", "", k) : k \in SeqsUpTo(Leaves, MaxGrand) \ {<<>>}}
\* the trees a caller builds: a root with children that are leaves or have
\* leaves as children
Trees == {Node("root", "", k) : k \in SeqsUpTo(Leaves \cup Branches, MaxKids)}

\* ET.tostring(tr, encoding='unicode'): the text as its sequence of tokens,
\* <tag>, text, </tag>, and <tag /> for an element without text and children.
Tok(k, x) == [k |-> k, s |-> x]

RECURSIVE ET_tostring(_), SerKids(_, _)
ET_tostring(t) ==
    IF t.text = "" /\ t.kids = <<>>
    THEN <<Tok("empty", t.tag)>>
    ELSE <<Tok("open", t.tag)>>
            \o (IF t.text # "" THEN <<Tok("text", t.text)>> ELSE <<>>)
            \o SerKids(t.kids, 1)
            \o <<Tok("close", t.tag)>>
SerKids(kids, i) ==
    IF i > Len(kids) THEN <<>> ELSE ET_tostring(kids[i]) \o SerKids(kids, i + 1)

\* ET.fromstring(s): the element that starts at token i, and where it ends
RECURSIVE ParseElem(_, _), ParseKids(_, _, _)
ParseElem(toks, i) ==
    IF toks[i].k = "empty"
    THEN [node |-> Node(toks[i].s, "", <<>>), next |-> i + 1]
    ELSE LET hasText == toks[i + 1].k = "text"
             r == ParseKids(toks, IF hasText THEN i + 2 ELSE i + 1, <<>>)
         IN  [node |-> Node(toks[i].s, IF hasText THEN toks[i + 1].s ELSE "", r.kids),
              next |-> r.next + 1]
ParseKids(toks, i, acc) ==
    IF toks[i].k = "close"
    THEN [kids |-> acc, next |-> i]
    ELSE LET e == ParseElem(toks, i)
         IN  ParseKids(toks, e.next, Append(acc, e.node))

ET_fromstring(toks) == ParseElem(toks, 1).node

\* utils.lt_empty_tree(): an element without children
lt_empty_tree == Node("OriginStorage", "", <<>>)

\* utils._tree_to_dict(dd, node): a leaf's text, or a branch's nested
\* mapping, is stored in dd under the node's tag.
RECURSIVE tree_to_dict(_, _), KidsToDict(_, _, _)
tree_to_dict(dd, node) ==
    IF node.kids = <<>>
    THEN DictSet(dd, node.tag, [leaf |-> TRUE, text |-> node.text, map |-> <<>>])
    ELSE DictSet(dd, node.tag,
                 [leaf |-> FALSE, text |-> "", map |-> KidsToDict(node.kids, 1, <<>>)])
KidsToDict(kids, i, dd) ==
    IF i > Len(kids) THEN dd ELSE KidsToDict(kids, i + 1, tree_to_dict(dd, kids[i]))

\* (mutant) the getter answering the first child of the stored element
usertree_FirstChild(str) ==
    IF str = <<>> THEN lt_empty_tree
    ELSE IF ET_fromstring(str).kids = <<>> THEN ET_fromstring(str)
    ELSE ET_fromstring(str).kids[1]

\* BaseObject.usertree (getter), str being what get_str('tree') answers
usertree(str) == IF str = <<>> THEN lt_empty_tree ELSE ET_fromstring(str)

\* BaseObject.userprops; an element without children is false
userprops(str) ==
    IF usertree(str).kids # <<>> THEN KidsToDict(usertree(str).kids, 1, <<>>) ELSE <<>>

\* wks.usertree = tr: set_str('tree', ET.tostring(tr)); the host keeps the
\* string as it is.
BaseObject_usertree_set(tr) ==
    /\ HasWrapper
    /\ tr # NoTree
    /\ store' = ET_tostring(tr)
    /\ hist' = [hist EXCEPT !.tree = tr]
    /\ Return(World, "usertree_set", "ok", <<tr>>, PyNone)
    /\ UNCHANGED <<EXIT, OBJS_COUNT, objs, nlfit, linfit>>

\* tr = wks.usertree
BaseObject_usertree_get ==
    /\ ObjReturn("usertree", "ok", <<>>, usertree(store))
    /\ UNCHANGED store

\* dd = wks.userprops
BaseObject_userprops ==
    /\ ObjReturn("userprops", "ok", <<>>, userprops(store))
    /\ UNCHANGED store

\* -------------------------------------------------------- analysis.NLFit
\* The calls of `w` that send the finalize command (nlend, nlend 1, nlend 1 1).
Finalizes(log) == {k \in 1..Len(log) : log[k].call = "LT_execute" /\ log[k].arg \in
                                          {"nlend", "nlend 1", "nlend 1 1"}}

\* utils.lt_tree_to_dict(name): reads the named tree from the host.
lt_tree_to_dict(w, name) == HostCall(w, "lt_tree_to_dict", name, -1)

\* (mutant) the constructor accepting 'lm' for an implicit function
NLFit_init_LmAnyModel(funcValid, implicit, numDeps, numIndeps, method) ==
    /\ nlfit.state = "none"
    /\ LET w   == HostCall(World, "LT_get_str", "GetFDFAsXML", -1)
           odr == IF method = "auto" THEN implicit ELSE method = "odr"
           out == IF ~funcValid THEN "ValueError"
                  ELSE IF method \in {"auto", "odr"} THEN "ok"
                  ELSE IF method = "lm" THEN "ok"
                  ELSE "ValueError"
       IN  /\ nlfit' = IF funcValid
                       THEN [state |-> IF out = "ok" THEN "alive" ELSE "failed",
                             ended |-> FALSE, odr |-> odr, implicit |-> implicit,
                             numDeps |-> numDeps, numIndeps |-> numIndeps]
                       ELSE [state |-> "failed", ended |-> FALSE, odr |-> FALSE,
                             implicit |-> FALSE, numDeps |-> 1, numIndeps |-> 1]
           /\ Return(w, "NLFit", out,
                     <<PyBool(funcValid), PyBool(implicit), PyStr(method)>>, PyNone)
    /\ UNCHANGED <<linfit, store>>
    /\ hist' = [hist EXCEPT !.nlends = 0, !.hasData = FALSE, !.reused = FALSE]
    /\ UNCHANGED <<EXIT, OBJS_COUNT, objs>>

\* NLFit.__init__(func, method).  What the host answers for GetFDFAsXML is an
\* input: whether func is a fitting function, and its GeneralInformation.
\* A constructor that raises leaves an instance ("failed") to be finalised.
NLFit_init(funcValid, implicit, numDeps, numIndeps, method) ==
    /\ nlfit.state = "none"
    /\ LET w   == HostCall(World, "LT_get_str", "GetFDFAsXML", -1)
           odr == IF method = "auto" THEN implicit ELSE method = "odr"
           out == IF ~funcValid THEN "ValueError"
                  ELSE IF method \in {"auto", "odr"} THEN "ok"
                  ELSE IF method = "lm" /\ ~implicit THEN "ok"
                  ELSE "ValueError"
       IN  /\ nlfit' = IF funcValid
                       THEN [state |-> IF out = "ok" THEN "alive" ELSE "failed",
                             ended |-> FALSE, odr |-> odr, implicit |-> implicit,
                             numDeps |-> numDeps, numIndeps |-> numIndeps]
                       ELSE [state |-> "failed", ended |-> FALSE, odr |-> FALSE,
                             implicit |-> FALSE, numDeps |-> 1, numIndeps |-> 1]
           /\ Return(w, "NLFit", out,
                     <<PyBool(funcValid), PyBool(implicit), PyStr(method)>>, PyNone)
    /\ UNCHANGED <<linfit, store>>
    /\ hist' = [hist EXCEPT !.nlends = 0, !.hasData = FALSE, !.reused = FALSE]
    /\ UNCHANGED <<EXIT, OBJS_COUNT, objs>>

\* (mutant) __del__ that does not look at po before it deletes the tree
NLFit_del_NoTest ==
    /\ nlfit.state \in {"alive", "failed"}
    /\ Commit(HostCall(World, "LT_execute", "del -vt _PY_NLFIT_TREE", -1), "NLFit_del", "ok")
    /\ nlfit' = [nlfit EXCEPT !.state = "none"]
    /\ UNCHANGED <<EXIT, OBJS_COUNT, objs, hist>>

\* NLFit.__del__
NLFit_del ==
    /\ nlfit.state \in {"alive", "failed"}
    /\ LET w == IF APP_bool(World)
                THEN HostCall(World, "LT_execute", "del -vt _PY_NLFIT_TREE", -1)
                ELSE World
       IN  Commit(w, "NLFit_del", "ok")
    /\ nlfit' = [nlfit EXCEPT !.state = "none"]
    /\ UNCHANGED <<EXIT, OBJS_COUNT, objs, hist>>

\* (mutant) a data-setting operation that leaves the ended flag as it is
DataSet_KeepEnded(w, op, args) ==
    /\ nlfit' = nlfit
    /\ hist' = [hist EXCEPT !.nlends = 0, !.hasData = TRUE, !.reused = @ \/ nlfit.ended]
    /\ Return(w, op, "ok", args, PyNone)
    /\ UNCHANGED <<EXIT, OBJS_COUNT, objs, linfit, store>>

\* the three data-setting operations end the same way
DataSet(w, op, args) ==
    /\ nlfit' = [nlfit EXCEPT !.ended = FALSE]
    /\ hist' = [hist EXCEPT !.nlends = 0, !.hasData = TRUE, !.reused = @ \/ nlfit.ended]
    /\ Return(w, op, "ok", args, PyNone)
    /\ UNCHANGED <<EXIT, OBJS_COUNT, objs, linfit, store>>

\* NLFit.set_data(wks, x, y, yerr, xerr, z): z tells whether a z column is given
NLFit_set_data(z) ==
    /\ nlfit.state = "alive"
    /\ LET xf == IF z THEN "nlbeginz" ELSE IF nlfit.odr THEN "nlbegino" ELSE "nlbegin"
       IN  DataSet(HostCall(World, "LT_execute", xf, -1), "set_data", <<PyBool(z)>>)

\* the long name of the z-th matrix object
PyName(z) == [t |-> "str", v |-> z, s |-> "lname"]

\* NLFit.set_mdata(ms, z): z an index (isInt) or a long name; `z =+ 1`
\* assigns +1 to an index.  The command's range ends in !1 for an index and
\* in !name for a name.
NLFit_set_mdata(isInt, z) ==
    /\ nlfit.state = "alive"
    /\ LET obj == IF isInt THEN 1 ELSE z
       IN  DataSet(HostCall(World, "LT_execute",
                            IF isInt THEN "nlbeginm index" ELSE "nlbeginm name", obj),
                   "set_mdata", <<IF isInt THEN PyInt(z) ELSE PyName(z)>>)

\* NLFit._set(property, value): {tree}.{property}={value}
NLFit_set(w, property, value) == HostCall(w, "LT_execute", property, value)

\* bool(x)
Truthy(x) ==
    \/ x.t = "bool" /\ x.v = 1
    \/ x.t \in {"int", "float"} /\ x.v # 0
    \/ x.t = "str" /\ x.s # ""

\* a parameter operation changes nothing of the session on this side
ParamReturn(w, op, args) ==
    /\ nlfit.state = "alive"
    /\ Return(w, op, "ok", args, PyNone)
    /\ UNCHANGED <<EXIT, OBJS_COUNT, objs, nlfit, hist, linfit, store>>

\* (mutant) fix_param taking every false value for "turn fixing off"
NLFit_fix_param_Falsy(p, val) ==
    LET isOff == ~Truthy(val)
        isFlag == val.t = "bool" \/ isOff
        w1 == IF isFlag THEN World ELSE NLFit_set(World, p, val.v)
        w2 == NLFit_set(w1, "f_" \o p, IF isOff THEN 0 ELSE 1)
    IN  ParamReturn(w2, "fix_param", <<PyStr(p), val>>)

\* NLFit.fix_param(p, val)
NLFit_fix_param(p, val) ==
    LET isBool == val.t = "bool"
        fix == IF isBool THEN (IF Truthy(val) THEN 1 ELSE 0) ELSE 1
        w1 == IF isBool THEN World ELSE NLFit_set(World, p, val.v)
        w2 == NLFit_set(w1, "f_" \o p, fix)
    IN  ParamReturn(w2, "fix_param", <<PyStr(p), val>>)

\* NLFit.set_param(p, val)
NLFit_set_param(p, val) ==
    ParamReturn(NLFit_set(World, p, val.v), "set_param", <<PyStr(p), val>>)

\* NLFit._set_bound(lu, p, ctrl, val, ctrlonx, ctrlon), called by `op`
NLFit_set_bound(op, lu, p, ctrl, val, ctrlonx, ctrlon) ==
    LET on == IF ctrl # ""
              THEN (IF ctrl = ctrlonx THEN 1 ELSE IF ctrl = ctrlon THEN 2 ELSE 0)
              ELSE 0
        w1 == NLFit_set(World, lu \o "bon_" \o p, IF on # 0 THEN 1 ELSE 0)
        w2 == IF on # 0
              THEN NLFit_set(w1, lu \o "bx_" \o p, IF on = 1 THEN 1 ELSE 0)
              ELSE w1
        w3 == IF Truthy(val) THEN NLFit_set(w2, lu \o "b_" \o p, val.v) ELSE w2
    IN  ParamReturn(w3, op, <<PyStr(p), PyStr(ctrl), val>>)

\* NLFit.set_lbound(p, ctrl, val)
NLFit_set_lbound(p, ctrl, val) == NLFit_set_bound("set_lbound", "l", p, ctrl, val, ">", ">=")

\* NLFit.set_ubound(p, ctrl, val)
NLFit_set_ubound(p, ctrl, val) == NLFit_set_bound("set_ubound", "u", p, ctrl, val, "<", "<=")

\* NLFit.set_range(rg)
NLFit_set_range ==
    /\ nlfit.state = "alive"
    /\ LET plain == \/ (nlfit.implicit /\ nlfit.numIndeps = 2)
                    \/ (~nlfit.implicit /\ nlfit.numDeps = 1 /\ nlfit.numIndeps = 1)
           xf == IF nlfit.odr
                 THEN (IF plain THEN "nlbegino" ELSE "nlbeginor")
                 ELSE (IF plain THEN "nlbegin" ELSE "nlbeginr")
       IN  DataSet(HostCall(World, "LT_execute", xf, -1), "set_range", <<>>)

\* (mutant) fit() that hands the host's answer back
NLFit_fit_ReturnsCode(rc) ==
    /\ nlfit.state = "alive"
    /\ Return(HostCall(World, "LT_execute", "nlfit", -1), "fit", "ok",
              <<PyBool(rc)>>, PyBool(rc))
    /\ UNCHANGED <<EXIT, OBJS_COUNT, objs, nlfit, hist, linfit, store>>

\* NLFit.fit(iter); rc is what the host answers to the nlfit command.  The
\* method has no return statement.
NLFit_fit(rc) ==
    /\ nlfit.state = "alive"
    /\ Return(HostCall(World, "LT_execute", "nlfit", -1), "fit", "ok",
              <<PyBool(rc)>>, PyNone)
    /\ UNCHANGED <<EXIT, OBJS_COUNT, objs, nlfit, hist, linfit, store>>

\* (mutant) result() without the _ended guard
NLFit_result_NoGuard ==
    /\ nlfit.state = "alive"
    /\ hist.nlends < MaxCount
    /\ LET w1 == HostCall(World, "LT_execute", "nlend", -1)
           w2 == lt_tree_to_dict(w1, "tree")
       IN  /\ Commit(w2, "result", "ok")
           /\ hist' = [hist EXCEPT !.nlends = @ + Cardinality(Finalizes(w2.sent))]
    /\ nlfit' = [nlfit EXCEPT !.ended = TRUE]
    /\ UNCHANGED <<EXIT, OBJS_COUNT, objs>>

\* NLFit.result()
NLFit_result ==
    /\ nlfit.state = "alive"
    /\ hist.nlends < MaxCount
    /\ LET w1 == IF ~nlfit.ended
                 THEN HostCall(World, "LT_execute", "nlend", -1)
                 ELSE World
           w2 == lt_tree_to_dict(w1, "tree")
       IN  /\ Commit(w2, "result", "ok")
           /\ hist' = [hist EXCEPT !.nlends = @ + Cardinality(Finalizes(w2.sent))]
    /\ nlfit' = [nlfit EXCEPT !.ended = TRUE]
    /\ UNCHANGED <<EXIT, OBJS_COUNT, objs>>

\* (mutant) report() that saves and clears @NLFS before it looks at _ended
NLFit_report_LateGuard(autoupdate) ==
    /\ nlfit.state = "alive"
    /\ hist.nlends < MaxCount
    /\ LET w1     == HostCall(World, "LT_evaluate", "@NLFS", -1)
           oldVal == w1.host.NLFS
           w2     == HostCall(w1, "LT_set_var", "@NLFS", 0)
           w3     == HostCall(w2, "LT_execute",
                              IF autoupdate THEN "nlend 1 1" ELSE "nlend 1", -1)
           w4     == HostCall(w3, "LT_set_var", "@NLFS", oldVal)
           w5     == HostCall(w4, "LT_get_str", "__REPORT", -1)
           w6     == HostCall(w5, "LT_get_str", "__FITCURVE", -1)
       IN  IF nlfit.ended
           THEN /\ Commit(w2, "report", "ValueError")
                /\ UNCHANGED <<nlfit, hist>>
           ELSE /\ Commit(w6, "report", "ok")
                /\ nlfit' = [nlfit EXCEPT !.ended = TRUE]
                /\ hist' = [hist EXCEPT !.nlends = @ + Cardinality(Finalizes(w6.sent))]
    /\ UNCHANGED <<EXIT, OBJS_COUNT, objs>>

\* (mutant) report() that forgets to set _ended
NLFit_report_NoFlag(autoupdate) ==
    /\ nlfit.state = "alive"
    /\ hist.nlends < MaxCount
    /\ IF nlfit.ended
       THEN /\ Commit(World, "report", "ValueError")
            /\ UNCHANGED <<nlfit, hist>>
       ELSE LET w1     == HostCall(World, "LT_evaluate", "@NLFS", -1)
                oldVal == w1.host.NLFS
                w2     == HostCall(w1, "LT_set_var", "@NLFS", 0)
                w3     == HostCall(w2, "LT_execute",
                                   IF autoupdate THEN "nlend 1 1" ELSE "nlend 1", -1)
                w4     == HostCall(w3, "LT_set_var", "@NLFS", oldVal)
                w5     == HostCall(w4, "LT_get_str", "__REPORT", -1)
                w6     == HostCall(w5, "LT_get_str", "__FITCURVE", -1)
            IN  /\ Commit(w6, "report", "ok")
                /\ UNCHANGED nlfit
                /\ hist' = [hist EXCEPT !.nlends = @ + Cardinality(Finalizes(w6.sent))]
    /\ UNCHANGED <<EXIT, OBJS_COUNT, objs>>

\* (mutant) report() that puts @NLFS back before it sends the finalize command
NLFit_report_RestoreFirst(autoupdate) ==
    /\ nlfit.state = "alive"
    /\ hist.nlends < MaxCount
    /\ IF nlfit.ended
       THEN /\ Commit(World, "report", "ValueError")
            /\ UNCHANGED <<nlfit, hist>>
       ELSE LET w1     == HostCall(World, "LT_evaluate", "@NLFS", -1)
                oldVal == w1.host.NLFS
                w2     == HostCall(w1, "LT_set_var", "@NLFS", 0)
                w3     == HostCall(w2, "LT_set_var", "@NLFS", oldVal)
                w4     == HostCall(w3, "LT_execute",
                                   IF autoupdate THEN "nlend 1 1" ELSE "nlend 1", -1)
                w5     == HostCall(w4, "LT_get_str", "__REPORT", -1)
                w6     == HostCall(w5, "LT_get_str", "__FITCURVE", -1)
            IN  /\ Commit(w6, "report", "ok")
                /\ nlfit' = [nlfit EXCEPT !.ended = TRUE]
                /\ hist' = [hist EXCEPT !.nlends = @ + Cardinality(Finalizes(w6.sent))]
    /\ UNCHANGED <<EXIT, OBJS_COUNT, objs>>

\* NLFit.report(autoupdate)
NLFit_report(autoupdate) ==
    /\ nlfit.state = "alive"
    /\ hist.nlends < MaxCount
    /\ IF nlfit.ended
       THEN /\ Commit(World, "report", "ValueError")
            /\ UNCHANGED <<nlfit, hist>>
       ELSE LET w1     == HostCall(World, "LT_evaluate", "@NLFS", -1)
                oldVal == w1.host.NLFS
                w2     == HostCall(w1, "LT_set_var", "@NLFS", 0)
                w3     == HostCall(w2, "LT_execute",
                                   IF autoupdate THEN "nlend 1 1" ELSE "nlend 1", -1)
                w4     == HostCall(w3, "LT_set_var", "@NLFS", oldVal)
                w5     == HostCall(w4, "LT_get_str", "__REPORT", -1)
                w6     == HostCall(w5, "LT_get_str", "__FITCURVE", -1)
            IN  /\ Commit(w6, "report", "ok")
                /\ nlfit' = [nlfit EXCEPT !.ended = TRUE]
                /\ hist' = [hist EXCEPT !.nlends = @ + Cardinality(Finalizes(w6.sent))]
    /\ UNCHANGED <<EXIT, OBJS_COUNT, objs>>

\* ---------------------------------------------------- analysis.LinearFit
\* linfit is the session and what its GUI tree in the host holds of the
\* band switches; the host keeps the tree until it is deleted.

\* LinearFit._set(property, value): {tree}.GUI.{property}={value}
LinearFit_set(w, property, value) == HostCall(w, "LT_execute", "GUI." \o property, value)

LinearReturn(w, op, args, ret) ==
    /\ Return(w, op, "ok", args, ret)
    /\ UNCHANGED <<EXIT, OBJS_COUNT, objs, nlfit, hist, store>>

\* LinearFit.__init__(): the init of FitLinear fills the tree, bands off
LinearFit_init ==
    /\ linfit.state = "none"
    /\ LET w1 == HostCall(World, "LT_execute", "Tree", -1)
           w2 == HostCall(w1, "LT_execute", "xop execute:=init", -1)
       IN  LinearReturn(w2, "LinearFit", <<>>, PyNone)
    /\ linfit' = [state |-> "alive", ConfBands |-> 0, PredBands |-> 0]

\* LinearFit.__del__
LinearFit_del ==
    /\ linfit.state = "alive"
    /\ LET w == IF APP_bool(World)
                THEN HostCall(World, "LT_execute", "del -vt _PY_LR_TREE", -1)
                ELSE World
       IN  LinearReturn(w, "LinearFit_del", <<>>, PyNone)
    /\ linfit' = [linfit EXCEPT !.state = "none"]

\* LinearFit.set_data(wks, x, y, err): err tells whether an error column is given
LinearFit_set_data(err) ==
    /\ linfit.state = "alive"
    /\ LET w1 == LinearFit_set(World, "InputData.Range1.X$", -1)
           w2 == LinearFit_set(w1, "InputData.Range1.Y$", -1)
           w3 == IF err THEN LinearFit_set(w2, "InputData.Range1.ED$", -1) ELSE w2
       IN  LinearReturn(w3, "LinearFit_set_data", <<PyBool(err)>>, PyNone)
    /\ UNCHANGED linfit

\* LinearFit.fix_slope(val)
LinearFit_fix_slope(val) ==
    /\ linfit.state = "alive"
    /\ LET w1 == LinearFit_set(World, "Fit.FixSlope", 1)
           w2 == LinearFit_set(w1, "Fit.FixSlopeAt", val)
       IN  LinearReturn(w2, "fix_slope", <<PyInt(val)>>, PyNone)
    /\ UNCHANGED linfit

\* LinearFit.fix_intercept(val)
LinearFit_fix_intercept(val) ==
    /\ linfit.state = "alive"
    /\ LET w1 == LinearFit_set(World, "Fit.FixIntercept", 1)
           w2 == LinearFit_set(w1, "Fit.FixInterceptAt", val)
       IN  LinearReturn(w2, "fix_intercept", <<PyInt(val)>>, PyNone)
    /\ UNCHANGED linfit

\* LinearFit.result()
LinearFit_result ==
    /\ linfit.state = "alive"
    /\ LET w1 == HostCall(World, "LT_execute", "xop execute:=run", -1)
           w2 == lt_tree_to_dict(w1, "trOut")
           w3 == HostCall(w2, "LT_execute", "del -vt trOut", -1)
       IN  LinearReturn(w3, "LinearFit_result", <<>>, PyStr("dd"))
    /\ UNCHANGED linfit

\* band & 1, band & 2
BandBit(band, bit) == (band \div bit) % 2

\* LinearFit.report(band): the report is generated from the tree as it is
\* when xop execute:=report runs.
LinearFit_report(band) ==
    /\ linfit.state = "alive"
    /\ LET w1     == IF BandBit(band, 1) # 0
                     THEN LinearFit_set(World, "Graph1.ConfBands", 1) ELSE World
           w2     == IF BandBit(band, 2) # 0
                     THEN LinearFit_set(w1, "Graph1.PredBands", 1) ELSE w1
           w3     == HostCall(w2, "LT_evaluate", "@NLFS", -1)
           oldVal == w3.host.NLFS
           w4     == HostCall(w3, "LT_set_var", "@NLFS", 0)
           w5     == HostCall(w4, "LT_execute", "xop execute:=report", -1)
           w6     == HostCall(w5, "LT_set_var", "@NLFS", oldVal)
           w7     == HostCall(w6, "LT_get_str", "__REPORT", -1)
           w8     == HostCall(w7, "LT_get_str", "__FITCURVE", -1)
       IN  LinearReturn(w8, "LinearFit_report", <<PyInt(band)>>, PyStr("__REPORT"))
    /\ linfit' = [linfit EXCEPT
                    !.ConfBands = IF BandBit(band, 1) # 0 THEN 1 ELSE @,
                    !.PredBands = IF BandBit(band, 2) # 0 THEN 1 ELSE @]

\* ------------------------------------------------------------------ Init
\* The state after `import originpro`: config.py lines 8-10 and 48.
Init ==
    /\ po = [app |-> "None", first |-> TRUE]
    /\ host \in [conns : {0}, poc : {FALSE}, NLFS : 0..MaxNLFS]
    /\ EXIT = FALSE
    /\ OBJS_COUNT = 0
    /\ objs = [i \in ObjIds |-> "unborn"]
    /\ nlfit = [state |-> "none", ended |-> FALSE, odr |-> FALSE, implicit |-> FALSE,
                numDeps |-> 1, numIndeps |-> 1]
    /\ sent = <<>>
    /\ lastOp = [op |-> "import", out |-> "ok"]
    /\ io = [args |-> <<>>, ret |-> PyNone]
    /\ linfit = [state |-> "none", ConfBands |-> 0, PredBands |-> 0]
    /\ store = <<>>
    /\ hist = [detachCalls |-> 0, detachDone |-> 0,
               lastDetach |-> [by |-> "none", exit |-> FALSE, count |-> 0,
                               existing |-> 0, released |-> FALSE],
               nlends |-> 0, hasData |-> FALSE, reused |-> FALSE,
               built |-> NoTree, tree |-> NoTree]

\* Two specifications over the same state: the wrapper bookkeeping with the
\* caller's use of po, and one NLFit session with the caller's use of po.
NextLife ==
    \/ \E i \in ObjIds, obj \in {"handle", "None"} : BaseObject_init(i, obj)
    \/ \E i \in ObjIds : BaseObject_del(i)
    \/ exit_handler
    \/ Forward
    \/ UserAttach
    \/ UserDetach
    \/ \E r \in BOOLEAN : UserExit(r)

SpecLife == Init /\ [][NextLife]_vars

Methods == {"auto", "odr", "lm", "simplex"}

NextFit ==
    \/ \E fv, im \in BOOLEAN, nd, ni \in 1..MaxVars, m \in Methods :
          NLFit_init(fv, im, nd, ni, m)
    \/ NLFit_del
    \/ \E z \in BOOLEAN : NLFit_set_data(z)
    \/ \E isInt \in BOOLEAN, z \in 0..MaxIdx : NLFit_set_mdata(isInt, z)
    \/ NLFit_set_range
    \/ \E rc \in BOOLEAN : NLFit_fit(rc)
    \/ NLFit_result
    \/ \E au \in BOOLEAN : NLFit_report(au)
    \/ \E v \in 0..MaxNLFS : SetNLFS(v)
    \/ UserAttach
    \/ UserDetach

SpecFit == Init /\ [][NextFit]_vars

\* A fit session and its parameters.
Params == {"y0", "xc"}
Ctrls == {"", ">", ">=", "<", "<="}
Numbers == {PyInt(n) : n \in 0..MaxVal}

NextParam ==
    \/ \E fv, im \in BOOLEAN, nd, ni \in 1..MaxVars, m \in Methods :
          NLFit_init(fv, im, nd, ni, m)
    \/ NLFit_del
    \/ \E p \in Params, val \in Numbers \cup {PyBool(TRUE), PyBool(FALSE)} :
          NLFit_fix_param(p, val)
    \/ \E p \in Params, val \in Numbers : NLFit_set_param(p, val)
    \/ \E p \in Params, ctrl \in Ctrls, val \in Numbers \cup {PyNone} :
          NLFit_set_lbound(p, ctrl, val)
    \/ \E p \in Params, ctrl \in Ctrls, val \in Numbers \cup {PyNone} :
          NLFit_set_ubound(p, ctrl, val)
    \/ UserDetach

SpecParam == Init /\ [][NextParam]_vars

\* A linear fit session.
Bands == {0, 1, 2, 3}

NextLinear ==
    \/ LinearFit_init
    \/ LinearFit_del
    \/ \E err \in BOOLEAN : LinearFit_set_data(err)
    \/ \E val \in 0..MaxVal : LinearFit_fix_slope(val)
    \/ \E val \in 0..MaxVal : LinearFit_fix_intercept(val)
    \/ LinearFit_result
    \/ \E band \in Bands : LinearFit_report(band)
    \/ \E v \in 0..MaxNLFS : SetNLFS(v)

SpecLinear == Init /\ [][NextLinear]_vars

\* The reports of both kinds of session, with the caller's use of @NLFS and
\* of the connection.
NextReport ==
    \/ \E fv, im \in BOOLEAN, nd, ni \in 1..MaxVars, m \in Methods :
          NLFit_init(fv, im, nd, ni, m)
    \/ \E z \in BOOLEAN : NLFit_set_data(z)
    \/ \E au \in BOOLEAN : NLFit_report(au)
    \/ LinearFit_init
    \/ \E band \in Bands : LinearFit_report(band)
    \/ \E v \in 0..MaxNLFS : SetNLFS(v)
    \/ UserDetach

SpecReport == Init /\ [][NextReport]_vars

\* Fit sessions next to the wrapper bookkeeping.
NextSession ==
    \/ \E i \in ObjIds : BaseObject_init(i, "handle")
    \/ \E i \in ObjIds : BaseObject_del(i)
    \/ exit_handler
    \/ \E fv \in BOOLEAN, m \in Methods : NLFit_init(fv, FALSE, 1, 1, m)
    \/ NLFit_del
    \/ LinearFit_init
    \/ LinearFit_del
    \/ UserDetach

SpecSession == Init /\ [][NextSession]_vars

\* Wrapped objects and the data that crosses to the host and back.
NextData ==
    \/ \E i \in ObjIds, obj \in {"handle", "None"} : BaseObject_init(i, obj)
    \/ \E i \in ObjIds : BaseObject_del(i)
    \/ \E t \in NpTypes : DtypeRoundTrip(t)
    \/ \E ndf \in OrgCodes : IPage_to_np(ndf)
    \/ \E ndf \in OrgCodes : IPage_to_np2d(ndf)
    \/ \E x \in HostNumbers : BaseObject_get_int(x)
    \/ \E x \in HostNumbers : BaseObject_method_int(x)
    \/ \E ok, dstack \in BOOLEAN : IPage_from_np(ok, dstack)
    \/ \E ok \in BOOLEAN : IPage_from_np2d(ok)

SpecData == Init /\ [][NextData]_vars

\* The user tree of one wrapped object: the caller has a wrapper and has
\* built a tree with ElementTree.
InitTree ==
    /\ po = [app |-> "None", first |-> TRUE]
    /\ host = [conns |-> 0, poc |-> FALSE, NLFS |-> 0]
    /\ EXIT = FALSE
    /\ OBJS_COUNT = 1
    /\ objs = [i \in ObjIds |-> IF i = 1 THEN "live" ELSE "unborn"]
    /\ nlfit = [state |-> "none", ended |-> FALSE, odr |-> FALSE, implicit |-> FALSE,
                numDeps |-> 1, numIndeps |-> 1]
    /\ sent = <<>>
    /\ lastOp = [op |-> "BaseObject", out |-> "ok"]
    /\ io = [args |-> <<>>, ret |-> PyNone]
    /\ linfit = [state |-> "none", ConfBands |-> 0, PredBands |-> 0]
    /\ store = <<>>
    /\ \E tr \in Trees :
          hist = [detachCalls |-> 0, detachDone |-> 0,
                  lastDetach |-> [by |-> "none", exit |-> FALSE, count |-> 0,
                                  existing |-> 0, released |-> FALSE],
                  nlends |-> 0, hasData |-> FALSE, reused |-> FALSE,
                  built |-> tr, tree |-> NoTree]

NextTree ==
    \/ \E tr \in {hist.built, Node("root", "", <<>>)} : BaseObject_usertree_set(tr)
    \/ BaseObject_usertree_get
    \/ BaseObject_userprops

SpecTree == InitTree /\ [][NextTree]_vars

\* The same with fairness: an instance that exists is finalised in the end
\* (reference counting, and interpreter shutdown at the latest).
SpecLifeFair == SpecLife /\ WF_vars(\E i \in ObjIds : BaseObject_del(i))

\* ---------------------------------------------------------------- claims

\* C1: the Live Object Count is never negative and equals the number of
\* BaseObject instances that exist (an instance whose constructor raised
\* exists until it is finalised).
C1_CountIsLiveObjects ==
    /\ OBJS_COUNT >= 0
    /\ OBJS_COUNT = Cardinality(Existing)

C1_Witness ==
    /\ \E i \in ObjIds : objs[i] = "dead"
    /\ \E i \in ObjIds : objs[i] = "live"
    /\ OBJS_COUNT = 1

\* C2: every po.Detach() made by the bookkeeping is made with the Exit Flag
\* set, the count at zero and no instance left.
C2_DetachOnlyWhenExitingAndIdle ==
    hist.lastDetach.by # "none" =>
        /\ hist.lastDetach.exit
        /\ hist.lastDetach.count = 0
        /\ hist.lastDetach.existing = 0

C2_Witness ==
    /\ hist.lastDetach.by = "del"
    /\ hist.lastDetach.released
    /\ \E i \in ObjIds : objs[i] = "dead"

\* C3 (as claimed): the bookkeeping releases the connection at most once in
\* a process lifetime, wrappers made after the exit handler included.
C3_DetachAtMostOnce == hist.detachDone <= 1

\* C4: the exit handler detaches in its own step when the count is zero;
\* otherwise the step that brings the count to zero detaches; a detach is
\* made at count zero only; and after the exit handler ran a detach follows
\* (every instance being finalised in the end).
C4_ReleasedAfterExit ==
    /\ [][(~EXIT /\ EXIT' /\ OBJS_COUNT = 0) =>
            (hist'.detachCalls = hist.detachCalls + 1 /\ po'.app = "None")]_vars
    /\ [][(EXIT /\ OBJS_COUNT > 0 /\ OBJS_COUNT' = 0) =>
            (hist'.detachCalls = hist.detachCalls + 1 /\ po'.app = "None")]_vars
    /\ [][(EXIT' /\ hist'.detachCalls # hist.detachCalls) => OBJS_COUNT' = 0]_vars
    /\ (lastOp.op = "exit_handler" ~> (hist.lastDetach.by # "none" /\ po.app = "None"))

C4_Witness ==
    /\ hist.lastDetach.by = "del"
    /\ hist.lastDetach.released
    /\ lastOp.op = "del"
    /\ po.app = "None"

\* C5 (as claimed): no connection after import, and every call forwarded
\* through po runs on a connection whose 'sec -poc' has completed.
C5_ForwardedAfterReadyWait ==
    /\ lastOp.op = "import" => po.app = "None"
    /\ \A k \in 1..Len(sent) :
          sent[k].via = "po" => (sent[k].conn # "None" /\ sent[k].poc)

\* C5 (amended): no connection after import; every call forwarded through po
\* runs on an existing connection; on a connection po made on demand the
\* call runs after 'sec -poc' completed, while a connection made by Attach()
\* gets no 'sec -poc'.
C5_ForwardedAfterAttach ==
    /\ lastOp.op = "import" => po.app = "None"
    /\ \A k \in 1..Len(sent) :
          sent[k].via = "po" =>
              /\ sent[k].conn # "None"
              /\ sent[k].poc <=> (sent[k].conn = "Application")

C5_Witness ==
    /\ lastOp.op = "forward"
    /\ Len(sent) = 3
    /\ sent[1].call = "Application"
    /\ sent[2].arg = "sec -poc"
    /\ sent[3].via = "po" /\ sent[3].poc

\* C6 (as claimed): a construction that fails on a null reference leaves the
\* count and the connection as they were.
C6_FailedInitLeavesCount ==
    [][(lastOp'.op = "BaseObject" /\ lastOp'.out = "TypeError") =>
          (OBJS_COUNT' = OBJS_COUNT /\ po'.app = po.app)]_vars

\* C7: the host has at most one connection of this process open, the one po
\* holds, and a connection is only made when po holds none.
C7_OneConnection ==
    /\ host.conns <= 1
    /\ host.conns = 1 <=> po.app # "None"
    /\ \A k \in 1..Len(sent) :
          sent[k].call \in {"Application", "ApplicationSI"} => sent[k].conn = "None"

C7_Witness ==
    /\ lastOp.op = "Attach"
    /\ Len(sent) = 2
    /\ sent[1].call = "Exit"
    /\ sent[2].call = "ApplicationSI"
    /\ host.conns = 1

\* C8 (as claimed): result() or report() called on an ended session raises
\* and sends no finalize command.
C8_SecondFinalizeRaises ==
    [][(nlfit.ended /\ lastOp'.op \in {"result", "report"}) =>
          (lastOp'.out = "ValueError" /\ Finalizes(sent') = {})]_vars

\* C8 (amended): on an ended session neither sends a finalize command;
\* report() raises ValueError, result() raises nothing, reads the result
\* tree and leaves the session ended.
C8_SecondFinalizeSendsNothing ==
    /\ [][(nlfit.ended /\ lastOp'.op = "report") =>
            (lastOp'.out = "ValueError" /\ Finalizes(sent') = {})]_vars
    /\ [][(nlfit.ended /\ lastOp'.op = "result") =>
            /\ lastOp'.out = "ok"
            /\ Finalizes(sent') = {}
            /\ \E k \in 1..Len(sent') : sent'[k].call = "lt_tree_to_dict"
            /\ nlfit'.ended]_vars

C8_Witness ==
    /\ lastOp = [op |-> "result", out |-> "ok"]
    /\ nlfit.ended
    /\ hist.nlends = 1
    /\ Finalizes(sent) = {}

\* C9: report() on an ended session raises ValueError and touches nothing:
\* no host call, @NLFS and the connection as they were, the session unchanged.
C9_ReportAfterEndTouchesNothing ==
    [][(nlfit.ended /\ lastOp'.op = "report") =>
          /\ lastOp'.out = "ValueError"
          /\ sent' = <<>>
          /\ host' = host
          /\ po' = po
          /\ nlfit' = nlfit]_vars

C9_Witness ==
    /\ lastOp = [op |-> "report", out |-> "ValueError"]
    /\ nlfit.ended
    /\ sent = <<>>

\* C10: after a data-setting call, any sequence of result() and report()
\* sends the finalize command at most once until the next data-setting call.
C10_OneFinalizePerDataSet == hist.hasData => hist.nlends <= 1

C10_Witness ==
    /\ hist.hasData
    /\ hist.nlends = 1
    /\ lastOp.op \in {"result", "report"}
    /\ Finalizes(sent) = {}

\* C11 (as claimed): fit() on a session with no data set hands the caller
\* the code the host answered to the iterate command, and does not raise.
C11_FitSurfacesHostCode ==
    [][(lastOp'.op = "fit" /\ ~hist.hasData) =>
          (lastOp'.out = "ok" /\ io'.ret = io'.args[1])]_vars

\* C11 (amended): fit(), with or without data set, sends the iterate command,
\* does not raise and returns None whatever the host answered.
C11_FitReturnsNone ==
    [][(lastOp'.op = "fit") =>
          /\ lastOp'.out = "ok"
          /\ io'.ret = PyNone
          /\ Len(sent') >= 1
          /\ sent'[Len(sent')].call = "LT_execute"
          /\ sent'[Len(sent')].arg = "nlfit"
          /\ sent'[Len(sent')].via = "po"]_vars

C11_Witness ==
    /\ lastOp.op = "fit"
    /\ ~hist.hasData
    /\ io.args = <<PyBool(FALSE)>>
    /\ io.ret = PyNone

\* C12 (as claimed): encoding an element type of npdtype_to_orgdtype to its
\* storage code and decoding the code gives the element type back.
C12_DtypeRoundTrip ==
    lastOp.op = "roundtrip" => io.ret = io.args[1]

\* C14 (as claimed): get_int and method_int never raise; they return the
\* truncation of a finite number the host answers and 0 for anything else
\* (text that is no number, nan, an infinity, None).
C14_IntAccessorsNeverFail ==
    lastOp.op \in {"get_int", "method_int"} =>
        /\ lastOp.out = "ok"
        /\ io.ret = IF io.args[1].t = "float" /\ io.args[1].s = ""
                    THEN PyInt(IF io.args[1].v >= 0 THEN io.args[1].v \div 10
                               ELSE -((-io.args[1].v) \div 10))
                    ELSE PyInt(0)

\* C15 (as claimed): from_np and from_np2d return what SetData answered and
\* do not raise.
C15_SetDataResultReturned ==
    lastOp.op \in {"from_np", "from_np2d"} =>
        (lastOp.out = "ok" /\ io.ret = io.args[1])

\* C15 (amended): from_np2d returns what SetData answered and does not raise;
\* from_np raises ValueError when SetData failed and returns None otherwise.
C15_SetDataResultByMethod ==
    /\ lastOp.op = "from_np2d" => (lastOp.out = "ok" /\ io.ret = io.args[1])
    /\ lastOp.op = "from_np" =>
          /\ io.ret = PyNone
          /\ lastOp.out = IF io.args[1] = PyBool(TRUE) THEN "ok" ELSE "ValueError"

C15_Witness ==
    /\ lastOp.op = "from_np2d"
    /\ io.args[1] = PyBool(FALSE)
    /\ io.ret = PyBool(FALSE)
    /\ lastOp.out = "ok"

\* A mapping that has one key for every child, each with that child's text
\* or, for a child with children, with such a mapping of them.
RECURSIVE MapEquiv(_, _)
MapEquiv(dd, kids) ==
    /\ Len(dd) = Len(kids)
    /\ \A i \in 1..Len(kids) :
          /\ DictHas(dd, kids[i].tag)
          /\ LET v == DictGet(dd, kids[i].tag)
             IN  IF kids[i].kids = <<>>
                 THEN v.leaf /\ v.text = kids[i].text
                 ELSE ~v.leaf /\ MapEquiv(v.map, kids[i].kids)

\* A mapping that has one key for every tag among the children, with the
\* value of the last child of that tag.
RECURSIVE MapOfLast(_, _)
MapOfLast(dd, kids) ==
    /\ Len(dd) = Cardinality({kids[i].tag : i \in 1..Len(kids)})
    /\ \A i \in 1..Len(kids) :
          (\A j \in (i + 1)..Len(kids) : kids[j].tag # kids[i].tag) =>
              /\ DictHas(dd, kids[i].tag)
              /\ LET v == DictGet(dd, kids[i].tag)
                 IN  IF kids[i].kids = <<>>
                     THEN v.leaf /\ v.text = kids[i].text
                     ELSE ~v.leaf /\ MapOfLast(v.map, kids[i].kids)

\* no two siblings of one tag, at any depth
RECURSIVE NoTwins(_)
NoTwins(kids) ==
    /\ \A i, j \in 1..Len(kids) : i # j => kids[i].tag # kids[j].tag
    /\ \A i \in 1..Len(kids) : NoTwins(kids[i].kids)

\* C13 (as claimed): after a tree was assigned to usertree, reading usertree
\* gives an equal tree and reading userprops gives a mapping with one entry
\* for every node of the tree, same-tag siblings included.
C13_TreeRoundTrip ==
    hist.tree # NoTree =>
        /\ lastOp.op = "usertree" => io.ret = hist.tree
        /\ lastOp.op = "userprops" => MapEquiv(io.ret, hist.tree.kids)

\* C13 (amended): after a tree was assigned to usertree, reading usertree
\* gives an equal tree, same-tag siblings and the childless tree included;
\* reading userprops gives a mapping with one entry per tag, that of the last
\* sibling of the tag, which is an entry for every node when no two siblings
\* share a tag.
C13_TreeRoundTripLastSibling ==
    hist.tree # NoTree =>
        /\ lastOp.op = "usertree" => io.ret = hist.tree
        /\ lastOp.op = "userprops" =>
              /\ MapOfLast(io.ret, hist.tree.kids)
              /\ NoTwins(hist.tree.kids) => MapEquiv(io.ret, hist.tree.kids)

C13_Witness ==
    /\ lastOp.op = "usertree"
    /\ Len(hist.tree.kids) = 2
    /\ hist.tree.kids[1].tag = hist.tree.kids[2].tag
    /\ hist.tree.kids[1].kids # <<>>
    /\ io.ret = hist.tree
    /\ store # <<>>

\* operations on a fit session
SessionOps == {"set_data", "set_mdata", "set_range", "fix_param", "set_param",
               "set_lbound", "set_ubound", "fit", "result", "report"}

\* C16: NLFit(func, method) raises ValueError exactly when func is no fitting
\* function, or method is 'lm' with an implicit function, or method is none
\* of 'auto', 'odr', 'lm'; otherwise the session uses ODR exactly when method
\* is 'odr', or 'auto' with an implicit function.  Only a session whose
\* construction succeeded is operated on.
C16_ConstructionDecision ==
    /\ lastOp.op = "NLFit" =>
          LET funcValid == io.args[1] = PyBool(TRUE)
              implicit  == io.args[2] = PyBool(TRUE)
              method    == io.args[3].s
          IN  /\ lastOp.out \in {"ok", "ValueError"}
              /\ lastOp.out = "ValueError" <=>
                    \/ ~funcValid
                    \/ method = "lm" /\ implicit
                    \/ method \notin {"auto", "odr", "lm"}
              /\ lastOp.out = "ok" =>
                    /\ nlfit.state = "alive"
                    /\ nlfit.odr <=> (method = "odr" \/ (method = "auto" /\ implicit))
              /\ lastOp.out = "ValueError" => nlfit.state = "failed"
    /\ lastOp.op \in SessionOps => nlfit.state = "alive"

C16_Witness ==
    /\ lastOp = [op |-> "NLFit", out |-> "ValueError"]
    /\ io.args = <<PyBool(TRUE), PyBool(TRUE), PyStr("lm")>>
    /\ nlfit.state = "failed"

\* the assignments {tree}.{property}={value} that an operation sent
Forwarded(log) == SelectSeq(log, LAMBDA e : e.via = "po")
Assigns(log) == [k \in 1..Len(Forwarded(log)) |->
                    <<Forwarded(log)[k].call, Forwarded(log)[k].arg, Forwarded(log)[k].val>>]

\* C17: fix_param(p, False) sends f_p=0 only, fix_param(p, True) sends f_p=1
\* only, and with any other val (0 included) it sends p=val and then f_p=1.
C17_FixParam ==
    lastOp.op = "fix_param" =>
        LET p == io.args[1].s
            val == io.args[2]
        IN  Assigns(sent) =
               IF val = PyBool(FALSE) THEN << <<"LT_execute", "f_" \o p, 0>> >>
               ELSE IF val = PyBool(TRUE) THEN << <<"LT_execute", "f_" \o p, 1>> >>
               ELSE << <<"LT_execute", p, val.v>>, <<"LT_execute", "f_" \o p, 1>> >>

C17_Witness ==
    /\ lastOp = [op |-> "fix_param", out |-> "ok"]
    /\ io.args = <<PyStr("y0"), PyInt(0)>>
    /\ Assigns(sent) = << <<"LT_execute", "y0", 0>>, <<"LT_execute", "f_y0", 1>> >>

\* C18 (as claimed): set_lbound / set_ubound send {l,u}bon_p=1 exactly when
\* ctrl is the strict or the non-strict operator of the side and =0 otherwise,
\* {l,u}bx_p=1 exactly when the bound is on and ctrl is the strict operator,
\* and {l,u}b_p=val whenever val is given, 0 included.
C18_BoundSet ==
    lastOp.op \in {"set_lbound", "set_ubound"} =>
        LET lu == IF lastOp.op = "set_lbound" THEN "l" ELSE "u"
            strict == IF lastOp.op = "set_lbound" THEN ">" ELSE "<"
            p == io.args[1].s
            ctrl == io.args[2].s
            val == io.args[3]
            on == ctrl \in {strict, strict \o "="}
            calls == {Assigns(sent)[k] : k \in 1..Len(Assigns(sent))}
        IN  /\ <<"LT_execute", lu \o "bon_" \o p, IF on THEN 1 ELSE 0>> \in calls
            /\ <<"LT_execute", lu \o "bon_" \o p, IF on THEN 0 ELSE 1>> \notin calls
            /\ <<"LT_execute", lu \o "bx_" \o p, 1>> \in calls <=> (on /\ ctrl = strict)
            /\ on => <<"LT_execute", lu \o "bx_" \o p, IF ctrl = strict THEN 1 ELSE 0>> \in calls
            /\ val # PyNone => <<"LT_execute", lu \o "b_" \o p, val.v>> \in calls

\* C19 (as claimed): set_mdata(ms, z) with an index z designates the matrix
\* object z+1, and with a name designates the object of that name.
C19_MatrixObjectSelected ==
    lastOp.op = "set_mdata" =>
        LET z == io.args[1]
        IN  Assigns(sent) =
               IF z.t = "int"
               THEN << <<"LT_execute", "nlbeginm index", z.v + 1>> >>
               ELSE << <<"LT_execute", "nlbeginm name", z.v>> >>

\* C20 (as claimed): the report of report(band) is generated with the
\* confidence band exactly when band has bit 1 and with the prediction band
\* exactly when band has bit 2, whatever earlier calls asked for.
C20_ReportBandsAsAsked ==
    lastOp.op = "LinearFit_report" =>
        /\ linfit.ConfBands = BandBit(io.args[1].v, 1)
        /\ linfit.PredBands = BandBit(io.args[1].v, 2)

\* the commands that generate a report
ReportCmds == {"nlend 1", "nlend 1 1", "xop execute:=report"}

\* the calls of an operation that read or write @NLFS or generate a report
NLFSCalls(log) ==
    SelectSeq(Assigns(log), LAMBDA c : c[2] = "@NLFS" \/ (c[1] = "LT_execute" /\ c[2] \in ReportCmds))

\* @NLFS in the host when call k of the log is made, having been `start`
RECURSIVE NLFSAt(_, _, _)
NLFSAt(log, k, start) ==
    IF k = 1 THEN start
    ELSE IF log[k - 1].call = "LT_set_var" /\ log[k - 1].arg = "@NLFS"
         THEN log[k - 1].val
         ELSE NLFSAt(log, k - 1, start)

\* C21: a report() that returns leaves @NLFS as it was, the host sees read
\* @NLFS, set @NLFS 0, the report command, set @NLFS to the value read, in
\* this order, and @NLFS is 0 when the report command is made.
C21_ReportKeepsNLFS ==
    [][(lastOp'.op \in {"report", "LinearFit_report"} /\ lastOp'.out = "ok") =>
          /\ host'.NLFS = host.NLFS
          /\ Len(NLFSCalls(sent')) = 4
          /\ NLFSCalls(sent')[1] = <<"LT_evaluate", "@NLFS", -1>>
          /\ NLFSCalls(sent')[2] = <<"LT_set_var", "@NLFS", 0>>
          /\ NLFSCalls(sent')[3][1] = "LT_execute"
          /\ NLFSCalls(sent')[4] = <<"LT_set_var", "@NLFS", host.NLFS>>
          /\ \A k \in 1..Len(sent') :
                (sent'[k].call = "LT_execute" /\ sent'[k].arg \in ReportCmds) =>
                    NLFSAt(sent', k, host.NLFS) = 0]_vars

C21_Witness ==
    /\ lastOp = [op |-> "LinearFit_report", out |-> "ok"]
    /\ host.NLFS = 1
    /\ Len(NLFSCalls(sent)) = 4
    /\ NLFSCalls(sent)[2] = <<"LT_set_var", "@NLFS", 0>>
    /\ NLFSCalls(sent)[4] = <<"LT_set_var", "@NLFS", 1>>

DataOps == {"set_data", "set_mdata", "set_range"}

\* C22: set_data, set_mdata and set_range clear the ended flag; report() on
\* a session whose flag is clear returns, sends one finalize command and
\* sets the flag; a flag that is set stays set until a data-setting call
\* (or until the name is bound to a new session).
C22_DataSetReopens ==
    /\ [][lastOp'.op \in DataOps => ~nlfit'.ended]_vars
    /\ [][(nlfit.state = "alive" /\ ~nlfit.ended /\ lastOp'.op = "report") =>
             /\ lastOp'.out = "ok"
             /\ Cardinality(Finalizes(sent')) = 1
             /\ nlfit'.ended]_vars
    /\ [][(nlfit.ended /\ lastOp'.op \notin DataOps \cup {"NLFit"}) => nlfit'.ended]_vars

\* report() has sent a finalize command on a session that had been
\* finalized before and was given data again
C22_Witness ==
    /\ lastOp = [op |-> "report", out |-> "ok"]
    /\ hist.reused
    /\ hist.nlends = 1
    /\ Finalizes(sent) # {}
    /\ nlfit.ended

SessionLife == {"NLFit", "NLFit_del", "LinearFit", "LinearFit_del"}

\* C23: making and destroying a fit session leaves the live object count as
\* it is; a destructor that runs with no connection sends nothing and makes
\* no connection; one that runs with a connection sends one command, the
\* delete of its own tree, and keeps the connection.
C23_SessionOutsideCount ==
    /\ [][lastOp'.op \in SessionLife => (OBJS_COUNT' = OBJS_COUNT /\ objs' = objs)]_vars
    /\ [][(lastOp'.op \in {"NLFit_del", "LinearFit_del"} /\ po.app = "None") =>
             (sent' = <<>> /\ po' = po /\ host' = host)]_vars
    /\ [][(lastOp'.op \in {"NLFit_del", "LinearFit_del"} /\ po.app # "None") =>
             /\ Assigns(sent') =
                   << <<"LT_execute",
                        IF lastOp'.op = "NLFit_del" THEN "del -vt _PY_NLFIT_TREE"
                                                   ELSE "del -vt _PY_LR_TREE",
                        -1>> >>
             /\ Len(sent') = 1
             /\ po' = po
             /\ host' = host]_vars

\* a session destroyed after the bookkeeping released the connection
C23_Witness ==
    /\ lastOp = [op |-> "NLFit_del", out |-> "ok"]
    /\ hist.lastDetach.by # "none"
    /\ po.app = "None"
    /\ host.conns = 0
    /\ sent = <<>>
    /\ linfit.state = "alive"

====
